---- MODULE Spec2Model ----
(***************************************************************************)
(* Model of the LiveView real-time audio session (src/unnamed/part_000).   *)
(*                                                                         *)
(* The component keeps its resources in React refs and its observable      *)
(* state in React state cells.  Every call of connect() is one "connect    *)
(* invocation" s in Conn; the objects it creates (microphone stream, input *)
(* and output AudioContext, Transport connection, capture nodes) carry the *)
(* index of the invocation that created them, and a ref holds 0 for null   *)
(* or the index of the object it points to.                                *)
(*                                                                         *)
(* Time is counted in ticks of the output clock (AudioContext.currentTime);*)
(* buffer durations are whole ticks.                                       *)
(***************************************************************************)
EXTENDS Integers, Sequences, FiniteSets, TLC

\* ------------------------------------------------------------------ bounds
MaxConnects == 2      \* connect() invocations in one run
CaptureConnects == 1  \* the same, in runs that also capture frames
MaxFrames == 2        \* frames the capture source delivers in one run
MaxMsgs == 2          \* inbound Transport messages in one run
MaxClock == 1         \* ticks of one output clock
MaxDur == 2           \* longest decoded buffer, in ticks
DuplexFrames == 1     \* frames in a run that also plays inbound audio
DuplexMsgs == 1       \* inbound messages in a run that also captures frames
MaxLen == 2           \* longest frame of arbitrary samples given to the codec
MaxSample == 6        \* largest sample magnitude, in units of 1 / SampleDen

Conn == 1..MaxConnects
Levels == {1, 2}      \* amplitude (RMS) of a captured frame, non-zero

\* An inbound message, lines 136 and 162: zero or one audio payload, which
\* decodes to a buffer of dur ticks or fails to decode, and the interrupted
\* flag.  A message with neither is left out: its handler does nothing.
Messages ==
  { m \in [audio : BOOLEAN, ok : BOOLEAN, dur : 0..MaxDur, interrupted : BOOLEAN] :
      /\ m.audio \/ m.interrupted
      /\ (m.audio /\ m.ok) <=> (m.dur > 0)
      /\ ~m.audio => ~m.ok }

VARIABLES
  mounted,                \* the component is mounted
  isConnected,            \* useState(false), line 7
  isMuted,                \* useState(false), line 8: the MuteFlag
  volume,                 \* useState(0), line 9: the loudness signal
  error,                  \* useState(null), line 10: "none" is null
  inputAudioContextRef,   \* line 13
  outputAudioContextRef,  \* line 14
  inputSourceRef,         \* line 15
  processorRef,           \* line 16
  nextStartTimeRef,       \* line 19: the PlaybackCursor
  sessionPromiseRef,      \* line 20
  currentSessionRef,      \* line 21
  nconn,                  \* connect() invocations so far
  cpc,                    \* cpc[s]: where invocation s of connect() stands
  closureMuted,           \* closureMuted[s]: isMuted as closed over by invocation s
  stream,                 \* stream[s]: the MediaStream getUserMedia gave s
  inCtx,                  \* inCtx[s]: input AudioContext created by s
  outCtx,                 \* outCtx[s]: output AudioContext created by s
  outClock,               \* outClock[s]: currentTime of output context s
  transport,              \* transport[s]: the connection opened by s
  opened,                 \* opened[s]: callbacks.onopen of s has run
  promise,                \* promise[s]: sessionPromise of s
  closeCalls,             \* closeCalls[s]: close() calls on the handle of s
  nodeCtx,                \* nodeCtx[s]: input context the capture nodes of s live on
  srcConnected,           \* srcConnected[s]: source node of s feeds its processor
  procConnected,          \* procConnected[s]: processor of s feeds the destination
  frameCount,             \* frames captured so far
  deferred,               \* deferred[s]: sends waiting on sessionPromise of s
  sent,                   \* sent[s]: sendRealtimeInput calls on the handle of s
  msgCount,               \* inbound messages handled so far
  decoding,               \* onmessage handlers suspended at await decodeAudioData
  sink,                   \* buffers handed to the audio sink by source.start
  lastIntr,               \* the last interruption handled
  tornDown,               \* tornDown[s]: cleanup has run since s was started
  priorTorn,              \* priorTorn[s]: invocations torn down before s started
  dropped,                \* ids of the chunks whose decode failed (line 156)
  lastFrame,              \* the last frame the audio callback was given
  inputData,              \* a frame of samples given to the PCM conversion
  int16                   \* the Int16Array the conversion filled from inputData

vars == << mounted, isConnected, isMuted, volume, error, inputAudioContextRef,
           outputAudioContextRef, inputSourceRef, processorRef, nextStartTimeRef,
           sessionPromiseRef, currentSessionRef, nconn, cpc, closureMuted, stream,
           inCtx, outCtx, outClock, transport, opened, promise, closeCalls, nodeCtx,
           srcConnected, procConnected, frameCount, deferred, sent, msgCount,
           decoding, sink, lastIntr, tornDown, priorTorn, dropped, lastFrame,
           inputData, int16 >>

Max(a, b) == IF a >= b THEN a ELSE b

\* the component after construction
InitView ==
  /\ mounted = TRUE
  /\ isConnected = FALSE
  /\ isMuted = FALSE
  /\ volume = 0
  /\ error = "none"
  /\ inputAudioContextRef = 0
  /\ outputAudioContextRef = 0
  /\ inputSourceRef = 0
  /\ processorRef = 0
  /\ nextStartTimeRef = 0
  /\ sessionPromiseRef = 0
  /\ currentSessionRef = 0
  /\ nconn = 0
  /\ cpc = [s \in Conn |-> "idle"]
  /\ closureMuted = [s \in Conn |-> FALSE]
  /\ stream = [s \in Conn |-> "none"]
  /\ inCtx = [s \in Conn |-> "none"]
  /\ outCtx = [s \in Conn |-> "none"]
  /\ outClock = [s \in Conn |-> 0]
  /\ transport = [s \in Conn |-> "none"]
  /\ opened = [s \in Conn |-> FALSE]
  /\ promise = [s \in Conn |-> "none"]
  /\ closeCalls = [s \in Conn |-> 0]
  /\ nodeCtx = [s \in Conn |-> 0]
  /\ srcConnected = [s \in Conn |-> FALSE]
  /\ procConnected = [s \in Conn |-> FALSE]
  /\ frameCount = 0
  /\ deferred = [s \in Conn |-> << >>]
  /\ sent = [s \in Conn |-> << >>]
  /\ msgCount = 0
  /\ decoding = {}
  /\ sink = << >>
  /\ lastIntr = [n |-> 0, ctx |-> 0, time |-> 0, before |-> 0, upto |-> 0]
  /\ tornDown = [s \in Conn |-> FALSE]
  /\ priorTorn = [s \in Conn |-> {}]
  /\ dropped = {}
  /\ lastFrame = [level |-> 0, muted |-> FALSE, gated |-> FALSE,
                  playing |-> FALSE]

Init ==
  /\ InitView
  /\ inputData = << >>
  /\ int16 = << >>

\* ---------------------------------------------------------------- cleanup
\* React state setters do nothing once the component is unmounted.
SetState(cell, value) == IF mounted THEN value ELSE cell

\* session.close() on a connection: an open connection starts closing,
\* close() on any other connection changes nothing (close is idempotent).
CloseTransport(tr, s) ==
  [tr EXCEPT ![s] = IF tr[s] = "open" THEN "closing" ELSE tr[s]]

\* a cleanup that closes the session but keeps its handle in the ref
cleanupKeepsHandle(tr) ==
  /\ procConnected' = [s \in Conn |->
        IF s = processorRef THEN FALSE ELSE procConnected[s]]
  /\ processorRef' = 0
  /\ srcConnected' = [s \in Conn |->
        IF s = inputSourceRef THEN FALSE ELSE srcConnected[s]]
  /\ inputSourceRef' = 0
  /\ inCtx' = [s \in Conn |->
        IF s = inputAudioContextRef THEN "closed" ELSE inCtx[s]]
  /\ inputAudioContextRef' = 0
  /\ outCtx' = [s \in Conn |->
        IF s = outputAudioContextRef THEN "closed" ELSE outCtx[s]]
  /\ outputAudioContextRef' = 0
  /\ transport' = IF currentSessionRef # 0
                    THEN CloseTransport(tr, currentSessionRef) ELSE tr
  /\ closeCalls' = [s \in Conn |->
        IF s = currentSessionRef THEN closeCalls[s] + 1 ELSE closeCalls[s]]
  /\ currentSessionRef' = currentSessionRef
  /\ sessionPromiseRef' = 0
  /\ isConnected' = SetState(isConnected, FALSE)
  /\ volume' = SetState(volume, 0)
  /\ tornDown' = [s \in Conn |-> tornDown[s] \/ cpc[s] # "idle"]

\* cleanup(), lines 25-49.  tr is the transport state the caller leaves.
cleanup(tr) ==
  /\ procConnected' = [s \in Conn |->
        IF s = processorRef THEN FALSE ELSE procConnected[s]]
  /\ processorRef' = 0
  /\ srcConnected' = [s \in Conn |->
        IF s = inputSourceRef THEN FALSE ELSE srcConnected[s]]
  /\ inputSourceRef' = 0
  /\ inCtx' = [s \in Conn |->
        IF s = inputAudioContextRef THEN "closed" ELSE inCtx[s]]
  /\ inputAudioContextRef' = 0
  /\ outCtx' = [s \in Conn |->
        IF s = outputAudioContextRef THEN "closed" ELSE outCtx[s]]
  /\ outputAudioContextRef' = 0
  /\ transport' = IF currentSessionRef # 0
                    THEN CloseTransport(tr, currentSessionRef) ELSE tr
  /\ closeCalls' = [s \in Conn |->
        IF s = currentSessionRef THEN closeCalls[s] + 1 ELSE closeCalls[s]]
  /\ currentSessionRef' = 0
  /\ sessionPromiseRef' = 0
  /\ isConnected' = SetState(isConnected, FALSE)
  /\ volume' = SetState(volume, 0)
  /\ tornDown' = [s \in Conn |-> tornDown[s] \/ cpc[s] # "idle"]

\* ---------------------------------------------------------------- connect
\* toggleConnection, lines 191-197, not connected: connect() up to its await
\* of getUserMedia (lines 55-58).
\* The runs of a specification hold at most limit invocations; in the runs of a
\* sequential one the user starts again only when every earlier invocation has
\* been torn down.
ToggleConnect(limit, sequential) ==
  /\ mounted
  /\ ~isConnected
  /\ nconn < limit
  /\ sequential => \A r \in Conn : cpc[r] # "idle" => tornDown[r]
  /\ nconn' = nconn + 1
  /\ error' = "none"
  /\ cpc' = [cpc EXCEPT ![nconn + 1] = "awaitMedia"]
  /\ closureMuted' = [closureMuted EXCEPT ![nconn + 1] = isMuted]
  /\ priorTorn' = [priorTorn EXCEPT ![nconn + 1] = {r \in Conn : tornDown[r]}]
  /\ UNCHANGED << mounted, isConnected, isMuted, volume, inputAudioContextRef,
                  outputAudioContextRef, inputSourceRef, processorRef,
                  nextStartTimeRef, sessionPromiseRef, currentSessionRef, stream,
                  inCtx, outCtx, outClock, transport, opened, promise, closeCalls,
                  nodeCtx, srcConnected, procConnected, frameCount, deferred, sent,
                  msgCount, decoding, sink, lastIntr, tornDown,
                  dropped, lastFrame, inputData, int16 >>

\* toggleConnection, lines 191-193, connected: cleanup().
ToggleDisconnect ==
  /\ mounted
  /\ isConnected
  /\ cleanup(transport)
  /\ UNCHANGED << mounted, isMuted, error, nextStartTimeRef, nconn, cpc,
                  closureMuted, stream, outClock, opened, promise, nodeCtx,
                  frameCount, deferred, sent, msgCount, decoding, sink, lastIntr,
                  priorTorn,
                  dropped, lastFrame, inputData, int16 >>

\* connect(), lines 58-83 and 181-182, when getUserMedia resolves: the stream is
\* acquired, both AudioContexts are created and stored, the Transport open is
\* initiated (not awaited) and the promise is stored; callbacks fire later.
GetUserMediaOk(s) ==
  /\ cpc[s] = "awaitMedia"
  /\ cpc' = [cpc EXCEPT ![s] = "done"]
  /\ stream' = [stream EXCEPT ![s] = "live"]
  /\ inCtx' = [inCtx EXCEPT ![s] = "running"]
  /\ inputAudioContextRef' = s
  /\ outCtx' = [outCtx EXCEPT ![s] = "running"]
  /\ outputAudioContextRef' = s
  /\ transport' = [transport EXCEPT ![s] = "pending"]
  /\ promise' = [promise EXCEPT ![s] = "pending"]
  /\ sessionPromiseRef' = s
  /\ UNCHANGED << mounted, isConnected, isMuted, volume, error, inputSourceRef,
                  processorRef, nextStartTimeRef, currentSessionRef, nconn,
                  closureMuted, outClock, opened, closeCalls, nodeCtx,
                  srcConnected, procConnected, frameCount, deferred, sent,
                  msgCount, decoding, sink, lastIntr, tornDown, priorTorn,
                  dropped, lastFrame, inputData, int16 >>

\* a catch block that, having shown the error, goes on to open the Transport
GetUserMediaFailOpens(s) ==
  /\ cpc[s] = "awaitMedia"
  /\ cpc' = [cpc EXCEPT ![s] = "failed"]
  /\ error' = SetState(error, "mic")
  /\ cleanup([transport EXCEPT ![s] = "pending"])
  /\ UNCHANGED << mounted, isMuted, nextStartTimeRef, nconn, closureMuted, stream,
                  outClock, opened, promise, nodeCtx, frameCount, deferred, sent,
                  msgCount, decoding, sink, lastIntr, priorTorn,
                  dropped, lastFrame, inputData, int16 >>

\* connect(), lines 58 and 184-188, when getUserMedia rejects: the catch block
\* sets the error and runs cleanup().
GetUserMediaFail(s) ==
  /\ cpc[s] = "awaitMedia"
  /\ cpc' = [cpc EXCEPT ![s] = "failed"]
  /\ error' = SetState(error, "mic")
  /\ cleanup(transport)
  /\ UNCHANGED << mounted, isMuted, nextStartTimeRef, nconn, closureMuted, stream,
                  outClock, opened, promise, nodeCtx, frameCount, deferred, sent,
                  msgCount, decoding, sink, lastIntr, priorTorn,
                  dropped, lastFrame, inputData, int16 >>

\* callbacks.onopen, lines 85-133: the state becomes connected; unless the input
\* context ref is null the capture nodes are created on the context the ref
\* holds, stored in the refs and connected.
OnOpen(s) ==
  /\ transport[s] = "pending"
  /\ transport' = [transport EXCEPT ![s] = "open"]
  /\ opened' = [opened EXCEPT ![s] = TRUE]
  /\ isConnected' = SetState(isConnected, TRUE)
  /\ IF inputAudioContextRef = 0
       THEN UNCHANGED << inputSourceRef, processorRef, nodeCtx, srcConnected,
                         procConnected >>
       ELSE /\ inputSourceRef' = s
            /\ processorRef' = s
            /\ nodeCtx' = [nodeCtx EXCEPT ![s] = inputAudioContextRef]
            /\ srcConnected' = [srcConnected EXCEPT ![s] = TRUE]
            /\ procConnected' = [procConnected EXCEPT ![s] = TRUE]
  /\ UNCHANGED << mounted, isMuted, volume, error, inputAudioContextRef,
                  outputAudioContextRef, nextStartTimeRef, sessionPromiseRef,
                  currentSessionRef, nconn, cpc, closureMuted, stream, inCtx,
                  outCtx, outClock, promise, closeCalls, frameCount, deferred,
                  sent, msgCount, decoding, sink, lastIntr, tornDown, priorTorn,
                  dropped, lastFrame, inputData, int16 >>

\* a queue that hands its entries out last in, first out
FlushReversed(done, waiting) ==
  done \o [i \in 1..Len(waiting) |-> waiting[Len(waiting) + 1 - i]]

\* The reactions registered on sessionPromise run in registration order when it
\* resolves: the sends deferred at lines 121-128 follow the sends already made.
FlushDeferred(done, waiting) == done \o waiting

\* sessionPromise resolves (after the open event): line 182 stores the handle,
\* then the deferred sends of lines 121-128 run.
PromiseResolve(s) ==
  /\ promise[s] = "pending"
  /\ opened[s]
  /\ promise' = [promise EXCEPT ![s] = "resolved"]
  /\ currentSessionRef' = s
  /\ sent' = [sent EXCEPT ![s] = FlushDeferred(sent[s], deferred[s])]
  /\ deferred' = [deferred EXCEPT ![s] = << >>]
  /\ UNCHANGED << mounted, isConnected, isMuted, volume, error,
                  inputAudioContextRef, outputAudioContextRef, inputSourceRef,
                  processorRef, nextStartTimeRef, sessionPromiseRef, nconn, cpc,
                  closureMuted, stream, inCtx, outCtx, outClock, transport, opened,
                  closeCalls, nodeCtx, srcConnected, procConnected, frameCount,
                  msgCount, decoding, sink, lastIntr, tornDown, priorTorn,
                  dropped, lastFrame, inputData, int16 >>

\* sessionPromise rejects (the open failed): connect() does not await it and
\* lines 182 and 121 register no rejection handler, so nothing runs.
PromiseReject(s) ==
  /\ promise[s] = "pending"
  /\ ~opened[s]
  /\ promise' = [promise EXCEPT ![s] = "rejected"]
  /\ transport' = [transport EXCEPT ![s] = "closed"]
  /\ UNCHANGED << mounted, isConnected, isMuted, volume, error,
                  inputAudioContextRef, outputAudioContextRef, inputSourceRef,
                  processorRef, nextStartTimeRef, sessionPromiseRef,
                  currentSessionRef, nconn, cpc, closureMuted, stream, inCtx,
                  outCtx, outClock, opened, closeCalls, nodeCtx, srcConnected,
                  procConnected, frameCount, deferred, sent, msgCount, decoding,
                  sink, lastIntr, tornDown, priorTorn,
                  dropped, lastFrame, inputData, int16 >>

\* ---------------------------------------------------------------- capture
\* line 107: the mute test of the audio callback reads the isMuted that
\* connect() closed over when invocation s was started.
MuteGate(s) == closureMuted[s]

\* a meter that reads zero while the MuteFlag is set
AmplitudeUnlessMuted(level) == IF isMuted THEN 0 ELSE level

\* line 105: the loudness of a frame whose samples all have amplitude level.
Amplitude(level) == level

\* the capture nodes of s deliver frames
Capturing(s) ==
  /\ nodeCtx[s] # 0
  /\ srcConnected[s]
  /\ procConnected[s]
  /\ inCtx[nodeCtx[s]] = "running"

\* an audio callback that also rewinds the playback cursor
OnAudioProcessRewinds(s, level) ==
  /\ Capturing(s)
  /\ frameCount < MaxFrames
  /\ frameCount' = frameCount + 1
  /\ nextStartTimeRef' = 0
  /\ volume' = SetState(volume, Amplitude(level))
  /\ lastFrame' = [level |-> level, muted |-> isMuted, gated |-> MuteGate(s),
                   playing |-> nextStartTimeRef > 0]
  /\ LET frame == [n |-> frameCount + 1, muted |-> isMuted,
                   queued |-> promise[s] # "resolved"]
     IN IF MuteGate(s) \/ promise[s] = "rejected"
          THEN UNCHANGED << deferred, sent >>
          ELSE IF promise[s] = "resolved"
                 THEN /\ sent' = [sent EXCEPT ![s] = Append(sent[s], frame)]
                      /\ UNCHANGED deferred
                 ELSE /\ deferred' = [deferred EXCEPT ![s] = Append(deferred[s], frame)]
                      /\ UNCHANGED sent
  /\ UNCHANGED << mounted, isConnected, isMuted, error, inputAudioContextRef,
                  outputAudioContextRef, inputSourceRef, processorRef,
                  sessionPromiseRef, currentSessionRef, nconn,
                  cpc, closureMuted, stream, inCtx, outCtx, outClock, transport,
                  opened, promise, closeCalls, nodeCtx, srcConnected,
                  procConnected, msgCount, decoding, sink, lastIntr, tornDown,
                  priorTorn,
                  dropped, inputData, int16 >>

\* processor.onaudioprocess, lines 99-129, for one frame; the frame records its
\* capture order, the MuteFlag at the moment of capture and whether its send
\* was queued on the pending promise.
OnAudioProcess(s, level) ==
  /\ Capturing(s)
  /\ frameCount < MaxFrames
  /\ frameCount' = frameCount + 1
  /\ volume' = SetState(volume, Amplitude(level))
  /\ lastFrame' = [level |-> level, muted |-> isMuted, gated |-> MuteGate(s),
                   playing |-> nextStartTimeRef > 0]
  /\ LET frame == [n |-> frameCount + 1, muted |-> isMuted,
                   queued |-> promise[s] # "resolved"]
     IN IF MuteGate(s) \/ promise[s] = "rejected"
          THEN UNCHANGED << deferred, sent >>
          ELSE IF promise[s] = "resolved"
                 THEN /\ sent' = [sent EXCEPT ![s] = Append(sent[s], frame)]
                      /\ UNCHANGED deferred
                 ELSE /\ deferred' = [deferred EXCEPT ![s] = Append(deferred[s], frame)]
                      /\ UNCHANGED sent
  /\ UNCHANGED << mounted, isConnected, isMuted, error, inputAudioContextRef,
                  outputAudioContextRef, inputSourceRef, processorRef,
                  nextStartTimeRef, sessionPromiseRef, currentSessionRef, nconn,
                  cpc, closureMuted, stream, inCtx, outCtx, outClock, transport,
                  opened, promise, closeCalls, nodeCtx, srcConnected,
                  procConnected, msgCount, decoding, sink, lastIntr, tornDown,
                  priorTorn,
                  dropped, inputData, int16 >>

\* the mute button, lines 258-267, rendered only while connected
ToggleMute ==
  /\ mounted
  /\ isConnected
  /\ isMuted' = ~isMuted
  /\ UNCHANGED << mounted, isConnected, volume, error, inputAudioContextRef,
                  outputAudioContextRef, inputSourceRef, processorRef,
                  nextStartTimeRef, sessionPromiseRef, currentSessionRef, nconn,
                  cpc, closureMuted, stream, inCtx, outCtx, outClock, transport,
                  opened, promise, closeCalls, nodeCtx, srcConnected,
                  procConnected, frameCount, deferred, sent, msgCount, decoding,
                  sink, lastIntr, tornDown, priorTorn,
                  dropped, lastFrame, inputData, int16 >>

\* the stop button, lines 268-273, rendered only while connected: cleanup()
StopButton ==
  /\ mounted
  /\ isConnected
  /\ cleanup(transport)
  /\ UNCHANGED << mounted, isMuted, error, nextStartTimeRef, nconn, cpc,
                  closureMuted, stream, outClock, opened, promise, nodeCtx,
                  frameCount, deferred, sent, msgCount, decoding, sink, lastIntr,
                  priorTorn,
                  dropped, lastFrame, inputData, int16 >>

\* the unmount effect, lines 51-53: cleanup()
Unmount ==
  /\ mounted
  /\ mounted' = FALSE
  /\ cleanup(transport)
  /\ UNCHANGED << isMuted, error, nextStartTimeRef, nconn, cpc, closureMuted,
                  stream, outClock, opened, promise, nodeCtx, frameCount, deferred,
                  sent, msgCount, decoding, sink, lastIntr, priorTorn,
                  dropped, lastFrame, inputData, int16 >>

\* --------------------------------------------------------------- teardown
\* callbacks.onclose, lines 169-172: the connection has closed (by the remote
\* side, after close(), or after an error): cleanup().
OnClose(s) ==
  /\ transport[s] \in {"pending", "open", "closing"}
  /\ cleanup([transport EXCEPT ![s] = "closed"])
  /\ UNCHANGED << mounted, isMuted, error, nextStartTimeRef, nconn, cpc,
                  closureMuted, stream, outClock, opened, promise, nodeCtx,
                  frameCount, deferred, sent, msgCount, decoding, sink, lastIntr,
                  priorTorn,
                  dropped, lastFrame, inputData, int16 >>

\* an error handler that, having torn down, opens the connection again
OnErrorReconnects(s) ==
  /\ transport[s] \in {"pending", "open"}
  /\ error' = SetState(error, "connection")
  /\ cleanup([transport EXCEPT ![s] = "pending"])
  /\ UNCHANGED << mounted, isMuted, nextStartTimeRef, nconn, cpc, closureMuted,
                  stream, outClock, opened, promise, nodeCtx, frameCount, deferred,
                  sent, msgCount, decoding, sink, lastIntr, priorTorn,
                  dropped, lastFrame, inputData, int16 >>

\* callbacks.onerror, lines 173-177: the error is shown, then cleanup().
OnError(s) ==
  /\ transport[s] \in {"pending", "open"}
  /\ error' = SetState(error, "connection")
  /\ cleanup([transport EXCEPT ![s] = "closing"])
  /\ UNCHANGED << mounted, isMuted, nextStartTimeRef, nconn, cpc, closureMuted,
                  stream, outClock, opened, promise, nodeCtx, frameCount, deferred,
                  sent, msgCount, decoding, sink, lastIntr, priorTorn,
                  dropped, lastFrame, inputData, int16 >>

\* --------------------------------------------------------------- playback
\* a scheduler that starts every buffer at once
StartAtOnce(cursor, now) == now

\* a scheduler that starts every buffer at the cursor, whatever the clock shows
StartAtCursor(cursor, now) == cursor

\* line 152: the start time of a decoded buffer
StartTime(cursor, now) == Max(cursor, now)

\* a cursor that keeps the duration of the last buffer only
CursorIsDuration(start, dur) == dur

\* line 154: the cursor after a buffer was scheduled
CursorAfter(start, dur) == start + dur

\* line 166: the cursor after an interruption, the output clock showing now
InterruptReset(now) == 0

\* decodeAudioData of '../utils/audio-processor', awaited at line 140: the
\* promise settles some time after the call, with a buffer of the payload's
\* duration or with a decode error.
decodeAudioData(m) == [ok |-> m.ok, duration |-> m.dur]

\* the output clock the refs give access to; 0 stands for "no context"
Now == IF outputAudioContextRef = 0 THEN 0 ELSE outClock[outputAudioContextRef]

\* lines 161-167 for message id, handled when the cursor is cur; upto is the
\* latest message whose interruption has been handled
Interruption(m, id, cur) ==
  IF m.interrupted
    THEN /\ nextStartTimeRef' = InterruptReset(Now)
         /\ lastIntr' = [n |-> lastIntr.n + 1, ctx |-> outputAudioContextRef,
                         time |-> Now, before |-> cur,
                         upto |-> Max(lastIntr.upto, id)]
    ELSE /\ nextStartTimeRef' = cur
         /\ UNCHANGED lastIntr

\* callbacks.onmessage, lines 134-168, up to its await: with an audio payload
\* and an output context the handler suspends at line 140; otherwise it goes on
\* to the interruption test at once.
OnMessage(s, m) ==
  /\ transport[s] = "open"
  /\ msgCount < MaxMsgs
  /\ msgCount' = msgCount + 1
  /\ IF m.audio /\ outputAudioContextRef # 0
       THEN /\ decoding' = decoding \cup
                 {[id |-> msgCount + 1, s |-> s, msg |-> m]}
            /\ UNCHANGED << nextStartTimeRef, lastIntr >>
       ELSE /\ Interruption(m, msgCount + 1, nextStartTimeRef)
            /\ UNCHANGED decoding
  /\ UNCHANGED << mounted, isConnected, isMuted, volume, error,
                  inputAudioContextRef, outputAudioContextRef, inputSourceRef,
                  processorRef, sessionPromiseRef, currentSessionRef, nconn, cpc,
                  closureMuted, stream, inCtx, outCtx, outClock, transport, opened,
                  promise, closeCalls, nodeCtx, srcConnected, procConnected,
                  frameCount, deferred, sent, sink, tornDown, priorTorn,
                  dropped, lastFrame, inputData, int16 >>

\* a handler that schedules whatever the decode left, failed or not
SchedulableAlways(buf) == outputAudioContextRef # 0

\* lines 138-159, the try block after the await: the buffer is scheduled when
\* the decode gave one and the output context ref is not null; a decode error
\* or a null ref throws into the catch of line 156, which only logs.
Schedulable(buf) == buf.ok /\ outputAudioContextRef # 0

\* callbacks.onmessage, lines 140-167, from the await on: if the decode
\* succeeded and the output context ref is not null (a null ref throws at line
\* 146 into the catch of line 156) the buffer is scheduled and the cursor
\* advanced; then the interruption test runs.
DecodeDone(id) ==
  \E h \in decoding :
  /\ h.id = id
  /\ decoding' = decoding \ {h}
  /\ LET buf == decodeAudioData(h.msg)
         scheduled == Schedulable(buf)
         startTime == StartTime(nextStartTimeRef, Now)
         cur == IF scheduled THEN CursorAfter(startTime, buf.duration)
                             ELSE nextStartTimeRef
     IN /\ sink' = IF scheduled
                     THEN Append(sink, [id |-> h.id, s |-> h.s,
                                        ctx |-> outputAudioContextRef,
                                        start |-> startTime, dur |-> buf.duration,
                                        at |-> Now, cursor |-> nextStartTimeRef,
                                        epoch |-> lastIntr.n,
                                        after |-> dropped, muted |-> isMuted])
                     ELSE sink
        /\ dropped' = IF buf.ok THEN dropped ELSE dropped \cup {h.id}
        /\ Interruption(h.msg, h.id, cur)
  /\ UNCHANGED << mounted, isConnected, isMuted, volume, error,
                  inputAudioContextRef, outputAudioContextRef, inputSourceRef,
                  processorRef, sessionPromiseRef, currentSessionRef, nconn, cpc,
                  closureMuted, stream, inCtx, outCtx, outClock, transport, opened,
                  promise, closeCalls, nodeCtx, srcConnected, procConnected,
                  frameCount, deferred, sent, msgCount, tornDown, priorTorn,
                  lastFrame, inputData, int16 >>

\* the output clock of a running context advances
Tick(c) ==
  /\ outCtx[c] = "running"
  /\ outClock[c] < MaxClock
  /\ outClock' = [outClock EXCEPT ![c] = outClock[c] + 1]
  /\ UNCHANGED << mounted, isConnected, isMuted, volume, error,
                  inputAudioContextRef, outputAudioContextRef, inputSourceRef,
                  processorRef, nextStartTimeRef, sessionPromiseRef,
                  currentSessionRef, nconn, cpc, closureMuted, stream, inCtx,
                  outCtx, transport, opened, promise, closeCalls, nodeCtx,
                  srcConnected, procConnected, frameCount, deferred, sent,
                  msgCount, decoding, sink, lastIntr, tornDown, priorTorn,
                  dropped, lastFrame, inputData, int16 >>

\* -------------------------------------------------------------- PCM codec
\* Lines 109-119, the Float32 to Int16 conversion of one frame.  A sample is
\* the rational x / SampleDen; SampleDen is a power of two, so that the
\* samples and their products with 0x7FFF and 0x8000 are exact in floating
\* point, as they are here.
SampleDen == 4
Int16Max == 32767     \* 0x7FFF, line 115
Int16Scale == 32768   \* 0x8000, line 115
BufferSize == 4096    \* createScriptProcessor(4096, 1, 1), line 96

Samples == (0 - MaxSample)..MaxSample

\* the frames given to the conversion: every frame of up to MaxLen samples,
\* and the frames of BufferSize samples that all have the same value
Frames ==
  UNION { [1..n -> Samples] : n \in 1..MaxLen }
    \cup { [i \in 1..BufferSize |-> x] : x \in Samples }

Min(a, b) == IF a <= b THEN a ELSE b

\* line 114: Math.max(-1, Math.min(1, x))
Clamp(x) == Max(0 - SampleDen, Min(SampleDen, x))

\* a scaling that multiplies every sample by 0x8000
ScaleSymmetric(s) == s * Int16Scale

\* line 115: s < 0 ? s * 0x8000 : s * 0x7FFF, in units of 1 / SampleDen
Scale(s) == IF s < 0 THEN s * Int16Scale ELSE s * Int16Max

\* an element store that rounds to the nearest integer, halves upwards
StoreRounded(v) == (2 * v + SampleDen) \div (2 * SampleDen)

\* line 115, the store into an Int16Array element of the number v / SampleDen:
\* the fraction is dropped (truncation toward zero), then the integer is
\* taken modulo 2^16 into the signed 16-bit range.
ToInt16(v) ==
  LET n == IF v >= 0 THEN v \div SampleDen ELSE 0 - ((0 - v) \div SampleDen)
  IN ((n + Int16Scale) % (2 * Int16Scale)) - Int16Scale

\* lines 110-116: the conversion loop
Encode(frame) == [i \in 1..Len(frame) |-> ToInt16(Scale(Clamp(frame[i])))]

\* line 119: int16.buffer holds two bytes for every element
ByteLength(pcm) == 2 * Len(pcm)

\* a frame to convert
InitCodec ==
  /\ InitView
  /\ inputData \in Frames
  /\ int16 = << >>

\* lines 110-116 applied to the frame
EncodeFrame ==
  /\ int16 = << >>
  /\ inputData # << >>
  /\ int16' = Encode(inputData)
  /\ UNCHANGED << mounted, isConnected, isMuted, volume, error,
                  inputAudioContextRef, outputAudioContextRef, inputSourceRef,
                  processorRef, nextStartTimeRef, sessionPromiseRef,
                  currentSessionRef, nconn, cpc, closureMuted, stream, inCtx,
                  outCtx, outClock, transport, opened, promise, closeCalls,
                  nodeCtx, srcConnected, procConnected, frameCount, deferred,
                  sent, msgCount, decoding, sink, lastIntr, tornDown, priorTorn,
                  dropped, lastFrame, inputData >>

\* ------------------------------------------------------- specifications
\* The session lifecycle: the user, the microphone permission, the Transport.
Lifecycle(limit, sequential) ==
  \/ ToggleConnect(limit, sequential)
  \/ ToggleDisconnect
  \/ StopButton
  \/ \E s \in Conn : GetUserMediaOk(s)
  \/ \E s \in Conn : GetUserMediaFail(s)
  \/ \E s \in Conn : OnOpen(s)
  \/ \E s \in Conn : PromiseResolve(s)
  \/ \E s \in Conn : PromiseReject(s)
  \/ \E s \in Conn : OnClose(s)
  \/ \E s \in Conn : OnError(s)

\* The capture tick and the mute button.
Capture ==
  \/ \E s \in Conn, level \in Levels : OnAudioProcess(s, level)
  \/ ToggleMute

\* The inbound-event consumer and the output clock.
Playback ==
  \/ \E s \in Conn, m \in Messages : OnMessage(s, m)
  \/ \E id \in 1..MaxMsgs : DecodeDone(id)
  \/ \E c \in Conn : Tick(c)

Next == Lifecycle(MaxConnects, FALSE) \/ Unmount \/ Capture \/ Playback

Spec == Init /\ [][Next]_vars

\* The capture tick writes frameCount, lastFrame, volume, deferred, sent and
\* isMuted and reads nothing the inbound-event consumer writes; the
\* inbound-event consumer writes msgCount, decoding, dropped, sink,
\* nextStartTimeRef, lastIntr and outClock and reads nothing the capture tick
\* writes; the lifecycle reads none of the playback variables.  Each
\* specification below runs the lifecycle with the activities it names, so
\* each of its behaviours is a behaviour of Spec.  In the runs that capture or
\* play audio the user starts a session only after the previous one was torn
\* down, and the component is unmounted only in SpecLifecycle and
\* SpecTeardown.  SpecDuplex runs capture and playback together in a
\* session that is not torn down.
NextLifecycle == Lifecycle(MaxConnects, FALSE) \/ Unmount
SpecLifecycle == Init /\ [][NextLifecycle]_vars

\* overlapping invocations of connect() while the component stays mounted
NextOverlap == Lifecycle(MaxConnects, FALSE)
SpecOverlap == Init /\ [][NextOverlap]_vars

NextCapture == Lifecycle(CaptureConnects, TRUE) \/ Capture
SpecCapture == Init /\ [][NextCapture]_vars

\* every teardown path, unmount included, while frames are captured
NextTeardown == Lifecycle(CaptureConnects, TRUE) \/ Unmount \/ Capture
SpecTeardown == Init /\ [][NextTeardown]_vars

\* the PCM conversion applied to one frame
NextCodec == EncodeFrame
SpecCodec == InitCodec /\ [][NextCodec]_vars

\* the audio callback and the message handler in a run that holds at most
\* DuplexFrames frames and DuplexMsgs messages
DuplexFrame(s, level) ==
  /\ frameCount < DuplexFrames
  /\ OnAudioProcess(s, level)

DuplexMessage(s, m) ==
  /\ msgCount < DuplexMsgs
  /\ OnMessage(s, m)

\* one session that stays up, its captured frames and its inbound audio
NextDuplex ==
  \/ ToggleConnect(1, TRUE)
  \/ \E s \in Conn : GetUserMediaOk(s) \/ OnOpen(s) \/ PromiseResolve(s)
  \/ \E s \in Conn, level \in Levels : DuplexFrame(s, level)
  \/ ToggleMute
  \/ \E s \in Conn, m \in Messages : DuplexMessage(s, m)
  \/ \E id \in 1..MaxMsgs : DecodeDone(id)
SpecDuplex == Init /\ [][NextDuplex]_vars

\* one session and its inbound audio
NextPlayback == Lifecycle(1, TRUE) \/ Playback
SpecPlayback == Init /\ [][NextPlayback]_vars

\* sessions one after the other and their inbound audio
NextRestart == Lifecycle(MaxConnects, TRUE) \/ Playback
SpecRestart == Init /\ [][NextRestart]_vars

\* ------------------------------------------------------------------ claims
\* C1: no send is issued for a frame captured while the MuteFlag is set.
C1_MutedFramesNotSent ==
  \A s \in Conn : \A i \in 1..Len(sent[s]) : ~sent[s][i].muted

\* C2: once cleanup has run, the state is connected only through the open
\* event of an invocation started after it: no event of an invocation that has
\* been torn down makes the state connected again.
C2_StaysIdleAfterStop ==
  isConnected => \E s \in Conn : opened[s] /\ ~tornDown[s]

\* C3: after cleanup has run no connection opened by an earlier start() is
\* open, also when it was still pending at that moment.
C3_NoTransportOpenAfterStop ==
  \A s \in Conn : tornDown[s] => transport[s] # "open"

\* C4: after cleanup has run, the microphone stream of every invocation started
\* before it is no longer open.
C4_CaptureReleased ==
  \A s \in Conn : tornDown[s] => stream[s] # "live"

\* the buffers of the sink, in the order they were scheduled
Scheduled == 1..Len(sink)

\* buffer i was scheduled for a message of the session that created the output
\* context it plays on
OwnContext(i) == sink[i].s = sink[i].ctx

\* buffer i is the first one scheduled for a message of its session
FirstOfSession(i) == \A j \in 1..(i - 1) : sink[j].s # sink[i].s

\* C5: when an earlier session scheduled chunks and was torn down before the
\* next one was started, the first chunk of the next session starts at the
\* output clock's current time.
C5_FreshCursor ==
  \A i \in Scheduled :
    (/\ FirstOfSession(i)
     /\ OwnContext(i)
     /\ \E j \in 1..(i - 1) : OwnContext(j) /\ sink[j].s \in priorTorn[sink[i].s])
      => sink[i].start = sink[i].at

\* C6: handling an interruption while the cursor is not behind the output clock
\* sets the cursor to the clock's current time, which is at most the cursor held
\* before.
C6_ResetToNow ==
  [][(/\ lastIntr'.n > lastIntr.n
      /\ lastIntr'.ctx # 0
      /\ lastIntr'.before >= lastIntr'.time)
       => /\ nextStartTimeRef' = lastIntr'.time
          /\ nextStartTimeRef' <= lastIntr'.before]_vars

\* C7: after an interruption the sink holds no buffer that was scheduled before
\* it on the same output context and had not started when it was handled.
C7_PendingCanceled ==
  \A i \in Scheduled :
    (sink[i].epoch < lastIntr.n /\ sink[i].ctx = lastIntr.ctx)
      => sink[i].start <= lastIntr.time

\* C9: of two buffers scheduled with no interruption between them, the one
\* whose message arrived first is scheduled first and starts no later.
C9_FifoScheduling ==
  \A i, j \in Scheduled :
    (i < j /\ sink[i].epoch = sink[j].epoch)
      => sink[i].id < sink[j].id /\ sink[i].start <= sink[j].start

\* where buffer i ends
EndTime(i) == sink[i].start + sink[i].dur

\* no interruption was handled between the scheduling of buffers i and j
NoInterruptionBetween(i, j) == sink[i].epoch = sink[j].epoch

\* C8: every buffer starts at the maximum of the cursor and the output clock at
\* its scheduling decision and leaves the cursor at its end; with no
\* interruption between them, buffers on one output context never overlap, and
\* a buffer scheduled before its predecessor has ended starts exactly where the
\* predecessor ends.
C8_BackToBack ==
  /\ \A i \in Scheduled :
       /\ sink[i].start = Max(sink[i].cursor, sink[i].at)
       /\ (i = Len(sink) /\ sink[i].epoch = lastIntr.n)
            => nextStartTimeRef = EndTime(i)
  /\ \A i, j \in Scheduled :
       (i < j /\ NoInterruptionBetween(i, j) /\ sink[i].ctx = sink[j].ctx)
         => EndTime(i) <= sink[j].start
  /\ \A i \in Scheduled :
       (i > 1 /\ NoInterruptionBetween(i - 1, i) /\ sink[i].at <= EndTime(i - 1))
         => sink[i].start = EndTime(i - 1)

\* C8, the example: buffers of 2 ticks and 1 tick (1.0 s and 0.5 s) scheduled
\* with the clock at 0 start at 0 and 2 and leave the cursor at 3.
C8_Example ==
  /\ Len(sink) = 2
  /\ lastIntr.n = 0
  /\ sink[1].dur = 2 /\ sink[1].at = 0 /\ sink[1].start = 0
  /\ sink[2].dur = 1 /\ sink[2].at = 0 /\ sink[2].start = 2
  /\ nextStartTimeRef = 3

\* the frames of a sequence are in capture order
InCaptureOrder(frames) ==
  \A i, j \in 1..Len(frames) : i < j => frames[i].n < frames[j].n

\* C10: the sends of one connection, those made and those still deferred on
\* its promise, are in the capture order of their frames.
C10_OutboundFifo ==
  \A s \in Conn : InCaptureOrder(sent[s] \o deferred[s])

\* C10: a connection has received a frame whose send was deferred on the
\* pending promise, followed by a frame sent after the promise resolved.
C10_DeferredThenDirect ==
  \E s \in Conn :
    /\ Len(sent[s]) >= 2
    /\ sent[s][1].queued
    /\ ~sent[s][Len(sent[s])].queued

\* C11: whenever a connect promise has rejected (the Transport open failed),
\* a user-visible error is set, the session is Idle and the AudioContexts that
\* start created are closed and dropped from the refs.
C11_FailedOpenTornDown ==
  \A s \in Conn :
    promise[s] = "rejected" =>
      /\ error # "none"
      /\ ~isConnected
      /\ inCtx[s] = "closed" /\ outCtx[s] = "closed"
      /\ inputAudioContextRef # s /\ outputAudioContextRef # s

\* C12: the step that handles a transport error event of connection s shows
\* the error, leaves the session Idle with every resource reference empty,
\* leaves connection s neither pending nor open, and leaves the AudioContexts
\* and the microphone stream of s released; an error that is shown is cleared
\* only by the next start().
C12_ErrorEventReleasesAll ==
  [][ /\ \A s \in Conn :
           OnError(s) =>
             /\ mounted => error' = "connection"
             /\ ~isConnected'
             /\ inputAudioContextRef' = 0 /\ outputAudioContextRef' = 0
             /\ inputSourceRef' = 0 /\ processorRef' = 0
             /\ currentSessionRef' = 0 /\ sessionPromiseRef' = 0
             /\ transport'[s] \notin {"pending", "open"}
             /\ inCtx'[s] # "running" /\ outCtx'[s] # "running"
             /\ stream'[s] # "live"
      /\ (error # "none" /\ error' = "none") => nconn' = nconn + 1 ]_vars

\* C13: when getUserMedia rejects for invocation s, the step shows the error
\* and leaves the session Idle, and s never acquires a stream nor initiates a
\* Transport open, then or later; no step but the user's start() begins a
\* new invocation.
C13_MicFailureAbandonsStart ==
  [][ /\ \A s \in Conn :
           /\ (cpc[s] = "awaitMedia" /\ cpc'[s] = "failed") =>
                /\ mounted => error' = "mic"
                /\ ~isConnected'
                /\ nconn' = nconn
           /\ cpc'[s] = "failed" =>
                /\ transport'[s] = "none" /\ promise'[s] = "none"
                /\ stream'[s] = "none"
           /\ cpc[s] = "failed" => cpc'[s] = "failed"
      /\ nconn' # nconn => (mounted /\ ~isConnected /\ error' = "none") ]_vars

\* a failed start after which the error is shown and the session is Idle
C13_MicDenied ==
  \E s \in Conn :
    /\ cpc[s] = "failed"
    /\ error = "mic"
    /\ ~isConnected
    /\ transport[s] = "none"

\* C14: the step in which the decode of a chunk fails schedules nothing, shows
\* no error and leaves the session state, the resource references and the
\* connections as they were; unless the same message also carries the
\* interrupted flag it leaves the cursor as it was.
C14_DecodeFailureDropsChunk ==
  [][ \A h \in decoding :
        (h \notin decoding' /\ ~decodeAudioData(h.msg).ok) =>
          /\ sink' = sink
          /\ ~h.msg.interrupted => nextStartTimeRef' = nextStartTimeRef
          /\ UNCHANGED << isConnected, error, transport, outCtx,
                          outputAudioContextRef, currentSessionRef >> ]_vars

\* a chunk that is scheduled after the decode of an earlier chunk of the same
\* session has failed, the session still being connected and without error
C14_LaterChunkScheduled ==
  \E i \in 1..Len(sink) :
    /\ \E d \in sink[i].after : d < sink[i].id
    /\ sink[i].start = StartTime(sink[i].cursor, sink[i].at)
    /\ isConnected /\ error = "none"

\* a step of one of the paths that run cleanup(): the toggle and the stop
\* button while connected, unmount, the catch block of connect(), the closed
\* event and the error event
TeardownStep ==
  \/ ToggleDisconnect
  \/ StopButton
  \/ Unmount
  \/ \E s \in Conn : GetUserMediaFail(s) \/ OnClose(s) \/ OnError(s)

\* what cleanup() leaves: every resource reference empty, Idle, loudness 0
Released ==
  /\ inputAudioContextRef = 0 /\ outputAudioContextRef = 0
  /\ inputSourceRef = 0 /\ processorRef = 0
  /\ currentSessionRef = 0 /\ sessionPromiseRef = 0
  /\ ~isConnected
  /\ volume = 0

\* C15: every teardown path leaves the released state; a teardown step taken
\* in the released state changes no reference, no audio object, no count of
\* close() calls and no state cell that cleanup() writes; close() is called at
\* most once on the handle of a session.
C15_CleanupIdempotent ==
  [][ /\ TeardownStep => Released'
      /\ (TeardownStep /\ Released) =>
            UNCHANGED << inputAudioContextRef, outputAudioContextRef,
                         inputSourceRef, processorRef, currentSessionRef,
                         sessionPromiseRef, isConnected, volume, inCtx, outCtx,
                         srcConnected, procConnected, closeCalls >>
      /\ \A s \in Conn : closeCalls'[s] <= 1 ]_vars

\* cleanup() has run twice for one session: the error event of an open
\* connection ran it and closed the handle, then the closed event of that
\* connection ran it again
C15_ErrorThenClosed ==
  \E s \in Conn :
    /\ error = "connection"
    /\ opened[s]
    /\ closeCalls[s] = 1
    /\ transport[s] = "closed"
    /\ Released

\* C16: every frame the audio callback is given while the component is
\* mounted sets the loudness to that frame's amplitude, whether the MuteFlag
\* is set or not and whether the frame is sent or not; a change of the
\* MuteFlag leaves the capture nodes connected, the input context running and
\* the microphone stream as they were.
C16_LoudnessIgnoresMute ==
  [][ /\ (frameCount' = frameCount + 1 /\ mounted) =>
            volume' = lastFrame'.level
      /\ isMuted' # isMuted =>
            UNCHANGED << srcConnected, procConnected, inputSourceRef,
                         processorRef, nodeCtx, inCtx, inputAudioContextRef,
                         stream >> ]_vars

\* a frame captured while the MuteFlag is set has set the loudness, and the
\* capture nodes are still connected
C16_MutedFrameMetered ==
  /\ frameCount > 0
  /\ lastFrame.muted
  /\ volume = lastFrame.level /\ volume > 0
  /\ \E s \in Conn : Capturing(s)

\* C17 as stated: the conversion keeps the length of the frame, two bytes
\* for every sample, and encodes every non-negative sample as its clamped
\* value times 32767 rounded to the nearest integer: the encoded n satisfies
\* n - 1/2 <= s * 32767 < n + 1/2.
C17_RoundedScaling ==
  int16 # << >> =>
    /\ Len(int16) = Len(inputData)
    /\ ByteLength(int16) = 2 * Len(inputData)
    /\ \A i \in 1..Len(inputData) :
         inputData[i] >= 0 =>
           /\ (2 * int16[i] - 1) * SampleDen <= 2 * Scale(Clamp(inputData[i]))
           /\ 2 * Scale(Clamp(inputData[i])) < (2 * int16[i] + 1) * SampleDen

\* C17, amended: the conversion keeps the length of the frame, two bytes for
\* every sample, and encodes every non-negative sample as its clamped value
\* times 32767 with the fraction dropped: the encoded n satisfies
\* n <= s * 32767 < n + 1; a sample of amplitude 0.5 is encoded as 16383.
C17_TruncatedScaling ==
  int16 # << >> =>
    /\ Len(int16) = Len(inputData)
    /\ ByteLength(int16) = 2 * Len(inputData)
    /\ \A i \in 1..Len(inputData) :
         inputData[i] >= 0 =>
           /\ int16[i] * SampleDen <= Scale(Clamp(inputData[i]))
           /\ Scale(Clamp(inputData[i])) < (int16[i] + 1) * SampleDen
           /\ 2 * inputData[i] = SampleDen => int16[i] = 16383

\* the frame of 4096 samples of amplitude 0.5, converted: 8192 bytes
C17_HalfAmplitudeFrame ==
  /\ Len(inputData) = BufferSize
  /\ \A i \in 1..Len(inputData) : 2 * inputData[i] = SampleDen
  /\ Len(int16) = 4096
  /\ ByteLength(int16) = 8192
  /\ \A i \in 1..Len(int16) : int16[i] = 16383

\* a step that handles a transport error event, a closed event, a failed
\* getUserMedia or a rejected connect promise
FailureStep ==
  \E s \in Conn :
    OnError(s) \/ OnClose(s) \/ GetUserMediaFail(s) \/ PromiseReject(s)

\* C18: a step that handles a failure begins no connect() invocation,
\* initiates no Transport open and acquires no stream; a Transport open is
\* initiated and a stream acquired only by the continuation of a connect()
\* invocation that awaits getUserMedia, once for that invocation; and an
\* invocation is begun only by the user's start(), the step that clears the
\* error and runs no cleanup.
C18_NoAutomaticReconnect ==
  [][ /\ \/ /\ nconn' = nconn
               /\ \A r \in Conn :
                    /\ cpc'[r] = "awaitMedia" => cpc[r] = "awaitMedia"
                    /\ transport'[r] = "pending" => transport[r] = "pending"
                    /\ stream'[r] = "live" => stream[r] = "live"
            \/ ~FailureStep
      /\ \A s \in Conn :
           /\ (transport[s] # "pending" /\ transport'[s] = "pending") =>
                (cpc[s] = "awaitMedia" /\ cpc'[s] = "done")
           /\ (stream[s] # "live" /\ stream'[s] = "live") =>
                (cpc[s] = "awaitMedia" /\ cpc'[s] = "done")
           /\ (cpc[s] # "awaitMedia" /\ cpc'[s] = "awaitMedia") =>
                /\ cpc[s] = "idle" /\ nconn' = nconn + 1 /\ s = nconn'
                /\ mounted /\ ~isConnected /\ error' = "none"
                /\ tornDown' = tornDown ]_vars

\* after an error event and the closed event that follows it the error is
\* shown, the session is Idle, and no invocation, open or connection is under
\* way although the user could start again
C18_IdleAfterFailure ==
  /\ error = "connection"
  /\ ~isConnected
  /\ nconn < MaxConnects
  /\ \E s \in Conn : opened[s] /\ transport[s] = "closed"
  /\ \A r \in Conn : cpc[r] # "awaitMedia" /\ transport[r] \notin {"pending", "open"}

\* C19: no step makes the cursor smaller except a step that handles an
\* interruption: scheduling a chunk, dropping a chunk whose decode failed
\* and every other step leave it as it was or larger.
C19_CursorMonotone ==
  [][ nextStartTimeRef' < nextStartTimeRef => lastIntr'.n = lastIntr.n + 1 ]_vars

\* the decode of one chunk failed, another chunk was scheduled and advanced
\* the cursor, then an interruption made the cursor smaller
C19_GrewThenReset ==
  /\ Len(sink) >= 1
  /\ dropped # {}
  /\ lastIntr.n = 1 /\ lastIntr.before > 0
  /\ lastIntr.before >= sink[1].start + sink[1].dur
  /\ nextStartTimeRef < lastIntr.before

\* C20: every buffer is scheduled to start no earlier than the output clock
\* showed at that moment, and the cursor the scheduling step stores (line
\* 154) is no earlier than that either.
C20_NeverInThePast ==
  [][ Len(sink') = Len(sink) + 1 =>
        LET b == sink'[Len(sink')]
        IN /\ b.start >= Now
           /\ CursorAfter(b.start, b.dur) >= Now
           /\ lastIntr' = lastIntr => nextStartTimeRef' >= Now ]_vars

\* a buffer scheduled after an interruption, when the clock had passed the
\* cursor: it starts at the clock's time
C20_LateChunkAfterInterruption ==
  \E i \in 1..Len(sink) :
    /\ sink[i].epoch > 0
    /\ sink[i].at > sink[i].cursor
    /\ sink[i].start = sink[i].at

\* C21: whenever the state is connected, a session whose open event has run
\* has its connection open and its capture nodes in the refs and connected;
\* and every frame sent or queued for a session was captured after the open
\* event of that session.
C21_ActiveMeansWired ==
  /\ isConnected =>
       \E s \in Conn :
         /\ opened[s] /\ transport[s] = "open"
         /\ processorRef = s /\ inputSourceRef = s
         /\ Capturing(s)
  /\ \A s \in Conn : (sent[s] # << >> \/ deferred[s] # << >>) => opened[s]

\* C22: every encoded value lies in [-32768, 32767]; a sample at or above 1
\* encodes to 32767 and a sample at or below -1 to -32768; a sample x in
\* between encodes to within one unit of x * 32767 when it is non-negative and
\* of x * 32768 when it is negative, with the sign of x or zero.
C22_ClampedAsymmetricScaling ==
  int16 # << >> =>
    \A i \in 1..Len(inputData) :
      LET x == inputData[i]
          n == int16[i]
      IN /\ 0 - Int16Scale <= n /\ n <= Int16Max
         /\ x >= SampleDen => n = Int16Max
         /\ x <= 0 - SampleDen => n = 0 - Int16Scale
         /\ (0 <= x /\ x <= SampleDen) =>
               /\ n >= 0
               /\ n * SampleDen <= x * Int16Max
               /\ x * Int16Max < (n + 1) * SampleDen
         /\ (0 - SampleDen <= x /\ x < 0) =>
               /\ n <= 0
               /\ n * SampleDen >= x * Int16Scale
               /\ x * Int16Scale > (n - 1) * SampleDen

\* a converted frame with a sample above 1 and a sample below -1
C22_OutOfRangeSamples ==
  /\ int16 # << >>
  /\ \E i \in 1..Len(inputData) :
       inputData[i] > SampleDen /\ int16[i] = 32767
  /\ \E j \in 1..Len(inputData) :
       inputData[j] < 0 - SampleDen /\ int16[j] = 0 - 32768

\* C23: the step that handles a captured frame leaves the cursor, the
\* scheduled buffers, the suspended decodes and the interruption record as
\* they were; the steps that handle an inbound message, before and after its
\* decode, leave the MuteFlag and the mute value the audio callback closed
\* over as they were.
C23_DisjointWrites ==
  [][ /\ frameCount' # frameCount =>
           UNCHANGED << nextStartTimeRef, sink, decoding, lastIntr >>
      /\ (msgCount' # msgCount \/ decoding' # decoding) =>
           UNCHANGED << isMuted, closureMuted >> ]_vars

\* a frame was captured when the cursor had advanced, and a buffer was
\* scheduled while the MuteFlag was set; the cursor is still advanced and the
\* flag still set
C23_FrameDuringPlayback ==
  /\ frameCount > 0
  /\ lastFrame.playing
  /\ nextStartTimeRef > 0
  /\ isMuted
  /\ \E i \in 1..Len(sink) : sink[i].muted

\* C24: in every reachable state at most one connection is pending or open
\* and at most one microphone stream is live.
C24_AtMostOneSession ==
  /\ Cardinality({s \in Conn : transport[s] \in {"pending", "open"}}) <= 1
  /\ Cardinality({s \in Conn : stream[s] = "live"}) <= 1

\* C25: once cleanup has run for a session no step issues a send on the
\* handle of that session, also not the step in which its connect promise
\* resolves.
C25_NoSendAfterCleanup ==
  [][ \A s \in Conn : tornDown[s] => sent'[s] = sent[s] ]_vars

\* C26: no buffer is scheduled for a message of a session for which cleanup
\* has run; the step in which a decode completes for such a session schedules
\* nothing, leaves the cursor as it was unless the message carries the
\* interrupted flag, and leaves the error and the session state as they were;
\* no step that handles a message sets the error.
C26_NothingScheduledAfterCleanup ==
  [][ /\ Len(sink') > Len(sink) => ~tornDown[sink'[Len(sink')].s]
      /\ \A h \in decoding :
           (h \notin decoding' /\ tornDown[h.s]) =>
             /\ sink' = sink
             /\ ~h.msg.interrupted => nextStartTimeRef' = nextStartTimeRef
             /\ UNCHANGED << error, isConnected >>
      /\ (msgCount' # msgCount \/ decoding' # decoding) => error' = error ]_vars

\* C27: a buffer is scheduled only if no interruption carried by a message
\* that arrived after the buffer's own message has been handled before.
C27_InterruptionNotOvertaken ==
  [][ Len(sink') > Len(sink) => sink'[Len(sink')].id > lastIntr.upto ]_vars

====
